---- MODULE Spec2Model ----
(***************************************************************************)
(* Model of detect.py (pk-021/DupeNuke): near-duplicate image detection    *)
(* with locality sensitive hashing (find_near_duplicates), union-find      *)
(* grouping of the retained pairs (group_similar_images) and the batch     *)
(* entry point (main).                                                     *)
(*                                                                         *)
(* Two specifications:                                                     *)
(*   Spec       main -> find_near_duplicates -> group_similar_images       *)
(*   SpecGroup  group_similar_images, statement by statement, on an        *)
(*              arbitrary list of pairs                                    *)
(*                                                                         *)
(* Paths are strings; their lexicographic order is PathLt.  A signature is *)
(* a sequence of bits (numpy bool array, flattened).  A similarity and a   *)
(* threshold are exact fractions <<numerator, denominator>>; the floats of *)
(* the program compare the same way for the values drawn here.             *)
(***************************************************************************)
EXTENDS Integers, Sequences, FiniteSets, TLC

VARIABLES
    \* ---- main / find_near_duplicates (Spec)
    pc,                 \* position in main / find_near_duplicates
    input_dir,          \* [name, listable, entries]: the directory as listdir sees it
    threshold,          \* <<num, den>>
    hash_size,
    bands,
    file_list,          \* detect.py:54
    fi,                 \* index of the file the loop of line 57 is at (1-based)
    decoded,            \* what calculate_signature did for each file so far
    signatures,         \* detect.py:50  path -> packed bytes
    hash_buckets_list,  \* detect.py:51  one dict (key -> list of paths) per band
    candidate_pairs,    \* detect.py:77
    near_duplicates,    \* detect.py:89
    exc,                \* exception in flight or propagated ("none" if none)
    stdout,             \* what was printed, in order
    \* ---- group_similar_images (SpecGroup)
    gpc,                \* position in group_similar_images
    gpairs,             \* its argument
    gi,                 \* loop index (1-based)
    parent,             \* detect.py:115
    parent_keys,        \* insertion order of the dict parent
    clusters,           \* detect.py:146
    cluster_keys,       \* insertion order of the dict clusters
    groups              \* the returned list

fvars == <<pc, input_dir, threshold, hash_size, bands, file_list, fi, decoded,
           signatures, hash_buckets_list, candidate_pairs,
           near_duplicates, exc, stdout>>
gvars == <<gpc, gpairs, gi, parent, parent_keys, clusters, cluster_keys>>
vars == <<fvars, gvars, groups>>

(***************************************************************************)
(* Bounds and input universes                                              *)
(***************************************************************************)
\* bands ranges over 1..MaxBands (hash_size^2 = 4: 3 does not divide it, 5 exceeds it)
MaxBands == 5
\* length of the pair list handed to group_similar_images in SpecGroup
MaxPairs == 3

\* directory entries, listed in lexicographic order
PathOrder == <<"a.png", "b.png", "c.png", "d.png">>
GroupPaths == {PathOrder[i] : i \in 1..4}
DirPaths == {PathOrder[i] : i \in 1..3}
DirName == "photos"
HashSizes == {2}
Thresholds == {<<1, 2>>, <<3, 4>>}
Bits == {0, 1}

Min(a, b) == IF a < b THEN a ELSE b

PathRanks == [p \in {PathOrder[i] : i \in DOMAIN PathOrder} |->
                 CHOOSE i \in DOMAIN PathOrder : PathOrder[i] = p]
PathRank(p) == PathRanks[p]
\* str < str
PathLt(p, q) == PathRank(p) < PathRank(q)

\* the sequences that enumerate S, each element once
RECURSIVE Orders(_)
Orders(S) ==
    IF S = {} THEN {<<>>}
    ELSE UNION {{<<x>> \o o : o \in Orders(S \ {x})} : x \in S}
\* injective sequences over subsets of S
Listings(S) == UNION {Orders(T) : T \in SUBSET S}

Range(s) == {s[i] : i \in DOMAIN s}

(***************************************************************************)
(* numpy helpers                                                           *)
(***************************************************************************)
\* s[lo:hi] (0-based, end clamped)
Slice(s, lo, hi) ==
    LET l == Min(lo, Len(s))
        h == Min(hi, Len(s))
    IN  IF h <= l THEN <<>> ELSE [k \in 1..(h - l) |-> s[l + k]]

Pow2(n) == 2^n

BitAt(s, k) == IF k <= Len(s) THEN s[k] ELSE 0

\* np.packbits: 8 bits per byte, most significant first, zero padded at the end
PackBits(s) ==
    [j \in 1..((Len(s) + 7) \div 8) |->
        BitAt(s, 8*(j-1) + 1) * 128 + BitAt(s, 8*(j-1) + 2) * 64
      + BitAt(s, 8*(j-1) + 3) * 32  + BitAt(s, 8*(j-1) + 4) * 16
      + BitAt(s, 8*(j-1) + 5) * 8   + BitAt(s, 8*(j-1) + 6) * 4
      + BitAt(s, 8*(j-1) + 7) * 2   + BitAt(s, 8*(j-1) + 8)]

\* np.unpackbits
UnpackBits(b) ==
    [k \in 1..(8 * Len(b)) |->
        (b[((k - 1) \div 8) + 1] \div Pow2(7 - ((k - 1) % 8))) % 2]

\* np.bitwise_xor(x, y).sum()
XorSum(x, y) == Cardinality({k \in DOMAIN x : x[k] # y[k]})

\* ndarray.tobytes() of a bool array: one byte, 0 or 1, per element
ToBytes(s) == s

(***************************************************************************)
(* calculate_signature: the decoder is outside the repository; a call      *)
(* either returns a flattened hash of hash_size^2 bits or raises IOError.  *)
(***************************************************************************)
calculate_signature(hs) ==
    {[ok |-> TRUE, sig |-> s] : s \in [1..(hs * hs) -> Bits]}
        \cup {[ok |-> FALSE, sig |-> <<>>]}

(***************************************************************************)
(* find_near_duplicates                                                    *)
(***************************************************************************)
\* rows with a fault: the quotient rounded up
rows_rounded_up(hs, b) == (hs * hs + b - 1) \div b

\* line 49: int(hash_size**2/bands)
rows(hs, b) == (hs * hs) \div b

\* BandIndices with a fault: range(1, bands)
BandIndicesFromOne(b) == 1..(b - 1)

\* line 69: range(bands), 0-based band indices
BandIndices(b) == 0..(b - 1)

\* line 70-71: the bucket key of band i
signature_band_bytes(sig, i, r) == ToBytes(Slice(sig, i * r, (i + 1) * r))

\* lines 72-74 on one dict
BucketAdd(d, key, fh) ==
    IF key \notin DOMAIN d
    THEN d @@ (key :> <<fh>>)
    ELSE [d EXCEPT ![key] = Append(@, fh)]

\* lines 65-74: the loop body after a successful calculate_signature
\* st = [signatures, hash_buckets_list]
StoreSignature(st, fh, sig, hs, b) ==
    [signatures |->
        [p \in (DOMAIN st.signatures) \cup {fh} |->
            IF p = fh THEN PackBits(sig) ELSE st.signatures[p]],
     hash_buckets_list |->
        [i \in 1..b |->
            IF (i - 1) \in BandIndices(b)
            THEN BucketAdd(st.hash_buckets_list[i],
                           signature_band_bytes(sig, i - 1, rows(hs, b)), fh)
            ELSE st.hash_buckets_list[i]]]

\* AfterIOError with a fault: break instead of continue
AfterIOErrorBreak(i, n) == n + 1

\* lines 60-63: where the loop goes after IOError (continue: the next file)
AfterIOError(i, n) == i + 1

\* lines 50-51
EmptyIndex(b) == [signatures |-> <<>>, hash_buckets_list |-> [i \in 1..b |-> <<>>]]

\* lines 57-74 over a whole listing; outcome[fh] is what calculate_signature does
RECURSIVE IndexFiles(_, _, _, _, _, _)
IndexFiles(st, files, i, outcome, hs, b) ==
    IF i > Len(files) THEN st
    ELSE IF outcome[files[i]].ok
         THEN IndexFiles(StoreSignature(st, files[i], outcome[files[i]].sig, hs, b),
                         files, i + 1, outcome, hs, b)
         ELSE IndexFiles(st, files, AfterIOError(i, Len(files)), outcome, hs, b)

\* sorted(hash_bucket).  The sort is stable: element i lands after the elements
\* that go before it and after the earlier elements that tie with it.
SortedPaths(s) ==
    IF Len(s) <= 1 THEN s
    ELSE LET pos == [i \in DOMAIN s |->
                        1 + Cardinality({j \in DOMAIN s :
                                            \/ PathLt(s[j], s[i])
                                            \/ (j < i /\ ~PathLt(s[i], s[j]))})]
         IN  [k \in 1..Len(s) |-> s[CHOOSE i \in DOMAIN s : pos[i] = k]]

\* PairingOrder with a fault: the bucket is paired as it was filled
PairingOrderAsListed(bucket) == bucket

\* line 81: the order in which a bucket's members are paired
PairingOrder(bucket) == SortedPaths(bucket)

\* lines 80-86 for one bucket
BucketPairs(bucket) ==
    IF Len(bucket) > 1
    THEN LET hb == PairingOrder(bucket)
         IN  UNION {{<<hb[i], hb[j]>> : j \in (i + 1)..Len(hb)} : i \in 1..Len(hb)}
    ELSE {}

\* lines 77-86: the set of candidate pairs of all buckets of all bands
BuildCandidatePairs(hbl) ==
    UNION {UNION {BucketPairs(hbl[i][k]) : k \in DOMAIN hbl[i]} : i \in DOMAIN hbl}

\* lines 91-94
HammingDistance(sa, sb) == XorSum(UnpackBits(sa), UnpackBits(sb))

\* line 96: (hash_size**2 - hd) / hash_size**2, as an exact fraction
Similarity(hd, hs) == <<hs * hs - hd, hs * hs>>

FracGt(f, g) == f[1] * g[2] > g[1] * f[2]
FracEq(f, g) == f[1] * g[2] = g[1] * f[2]

\* Retained with a fault: similarity >= threshold
RetainedOrEqual(similarity, th) == ~FracGt(th, similarity)

\* line 97
Retained(similarity, th) == FracGt(similarity, th)

\* lines 91-96 for one candidate pair
PairSimilarity(cp, sigs, hs) ==
    Similarity(HammingDistance(sigs[cp[1]], sigs[cp[2]]), hs)

\* lines 90-98: candidate_pairs iterated in the order order;
\* similarity[cp] is PairSimilarity of cp
CheckCandidates(order, similarity, th) ==
    LET IsRetained(x) == Retained(x[3], th)
    IN  SelectSeq([k \in DOMAIN order |-> <<order[k][1], order[k][2], similarity[order[k]]>>],
                  IsRetained)

\* SortsBefore with a fault: reverse=True left out
SortsBeforeAscending(x, y) == FracGt(y[3], x[3])

\* the sort key of line 101 with reverse=True: x goes before y
SortsBefore(x, y) == FracGt(x[3], y[3])

\* line 101: list.sort is stable (see SortedPaths)
SortNearDuplicates(s) ==
    IF Len(s) <= 1 THEN s
    ELSE LET pos == [i \in DOMAIN s |->
                        1 + Cardinality({j \in DOMAIN s :
                                            \/ SortsBefore(s[j], s[i])
                                            \/ (j < i /\ ~SortsBefore(s[i], s[j]))})]
         IN  [k \in 1..Len(s) |-> s[CHOOSE i \in DOMAIN s : pos[i] = k]]

\* lines 88-102 for every order in which line 90 may iterate the set
PossibleResults(cps, sigs, hs, th) ==
    UNION {{SortNearDuplicates(nd) :
                nd \in {CheckCandidates(order, similarity, th) : order \in Orders(cps)}} :
           similarity \in {[cp \in cps |-> PairSimilarity(cp, sigs, hs)]}}

(***************************************************************************)
(* group_similar_images                                                    *)
(* st = [parent, parent_keys, clusters, cluster_keys]: the two dicts with  *)
(* their insertion orders                                                  *)
(***************************************************************************)
\* lines 115, 146
EmptyGroupState ==
    [parent |-> <<>>, parent_keys |-> <<>>, clusters |-> <<>>, cluster_keys |-> <<>>]

\* lines 118-120
make_set(st, x) ==
    IF x \notin DOMAIN st.parent
    THEN [st EXCEPT !.parent = [p \in (DOMAIN st.parent) \cup {x} |->
                                    IF p = x THEN x ELSE st.parent[p]],
                    !.parent_keys = Append(st.parent_keys, x)]
    ELSE st

\* find with a fault: the parent of x taken for its root
find_parent_only(par, x) == [root |-> par[x], parent |-> par]

\* lines 123-127: [root, parent], parent as the path compression leaves it
RECURSIVE find(_, _)
find(par, x) ==
    IF par[x] # x
    THEN LET par2 == [par EXCEPT ![x] = par[par[x]]]
         IN  find(par2, par2[x])
    ELSE [root |-> x, parent |-> par]

\* union with a fault: y itself, not its root, is attached to the root of x
union_member(par, x, y) ==
    LET fx == find(par, x)
        fy == find(fx.parent, y)
    IN  IF fx.root # fy.root
        THEN [fy.parent EXCEPT ![y] = fx.root]
        ELSE fy.parent

\* lines 130-134
union(par, x, y) ==
    LET fx == find(par, x)
        fy == find(fx.parent, y)
    IN  IF fx.root # fy.root
        THEN [fy.parent EXCEPT ![fy.root] = fx.root]
        ELSE fy.parent

\* lines 137-139, one iteration
MakeSetsOf(st, nd) == make_set(make_set(st, nd[1]), nd[2])

\* lines 142-143, one iteration
UnionOf(st, nd) == [st EXCEPT !.parent = union(st.parent, nd[1], nd[2])]

\* ClusterMember with a fault: the root is appended in place of the image
ClusterMemberRoot(img, root) == root

\* line 149: what is appended to clusters[root]
ClusterMember(img, root) == img

\* lines 147-149, one iteration
ClusterOf(st, img) ==
    LET f == find(st.parent, img)
        had == f.root \in DOMAIN st.clusters
    IN  [parent |-> f.parent,
         parent_keys |-> st.parent_keys,
         clusters |-> [r \in (DOMAIN st.clusters) \cup {f.root} |->
                          IF r = f.root
                          THEN Append(IF had THEN st.clusters[r] ELSE <<>>,
                                      ClusterMember(img, f.root))
                          ELSE st.clusters[r]],
         cluster_keys |-> IF had THEN st.cluster_keys
                          ELSE Append(st.cluster_keys, f.root)]

\* line 151: list(clusters.values())
ClusterValues(st) == [k \in 1..Len(st.cluster_keys) |-> st.clusters[st.cluster_keys[k]]]

RECURSIVE MakeSetsLoop(_, _, _)
MakeSetsLoop(st, nds, i) ==
    IF i > Len(nds) THEN st ELSE MakeSetsLoop(MakeSetsOf(st, nds[i]), nds, i + 1)

RECURSIVE UnionLoop(_, _, _)
UnionLoop(st, nds, i) ==
    IF i > Len(nds) THEN st ELSE UnionLoop(UnionOf(st, nds[i]), nds, i + 1)

RECURSIVE ClusterLoop(_, _)
ClusterLoop(st, i) ==
    IF i > Len(st.parent_keys) THEN st
    ELSE ClusterLoop(ClusterOf(st, st.parent_keys[i]), i + 1)

\* lines 105-151
group_similar_images(nds) ==
    ClusterValues(ClusterLoop(UnionLoop(MakeSetsLoop(EmptyGroupState, nds, 1), nds, 1), 1))

(***************************************************************************)
(* main                                                                    *)
(***************************************************************************)
\* MainCatches with a fault: another exception class is caught
MainCatchesValueError(e) == e = "ValueError"

\* line 175: except OSError (IOError is the same class)
MainCatches(e) == e \in {"OSError", "IOError"}

GroupIdle ==
    /\ gpc = "idle" /\ gpairs = <<>> /\ gi = 0
    /\ parent = <<>> /\ parent_keys = <<>> /\ clusters = <<>> /\ cluster_keys = <<>>

FindIdle ==
    /\ input_dir = [name |-> DirName, listable |-> FALSE, entries |-> <<>>]
    /\ threshold = <<0, 1>> /\ hash_size = 0 /\ bands = 0
    /\ file_list = <<>> /\ fi = 0 /\ decoded = <<>>
    /\ signatures = <<>> /\ hash_buckets_list = <<>>
    /\ candidate_pairs = {} /\ near_duplicates = <<>>
    /\ exc = "none" /\ stdout = <<>>

Init ==
    /\ pc = "main"
    /\ input_dir \in {[name |-> DirName, listable |-> FALSE, entries |-> <<>>]}
                     \cup {[name |-> DirName, listable |-> TRUE, entries |-> l] :
                              l \in Listings(DirPaths)}
    /\ threshold \in Thresholds
    /\ hash_size \in HashSizes
    /\ bands \in 1..MaxBands
    /\ file_list = <<>> /\ fi = 0 /\ decoded = <<>>
    /\ signatures = <<>> /\ hash_buckets_list = <<>>
    /\ candidate_pairs = {} /\ near_duplicates = <<>>
    /\ exc = "none" /\ stdout = <<>>
    /\ groups = <<>>
    /\ GroupIdle

\* line 54: listdir raises OSError; nothing of find_near_duplicates has run
ListDirRaises ==
    /\ pc = "main"
    /\ ~input_dir.listable
    /\ exc' = "OSError"
    /\ pc' = "raised"
    /\ UNCHANGED <<input_dir, threshold, hash_size, bands, file_list, fi, decoded,
                   signatures, hash_buckets_list, candidate_pairs,
                   near_duplicates, stdout, gvars, groups>>

\* lines 49-54; input_dir.entries are the entries for which isfile holds
ListDir ==
    /\ pc = "main"
    /\ input_dir.listable
    /\ file_list' = input_dir.entries
    /\ signatures' = EmptyIndex(bands).signatures
    /\ hash_buckets_list' = EmptyIndex(bands).hash_buckets_list
    /\ fi' = 1
    /\ pc' = "files"
    /\ UNCHANGED <<input_dir, threshold, hash_size, bands, decoded, candidate_pairs,
                   near_duplicates, exc, stdout, gvars, groups>>

\* lines 57-59, 65-74: one file, calculate_signature returns
SignatureStored ==
    /\ pc = "files"
    /\ fi <= Len(file_list)
    /\ \E o \in calculate_signature(hash_size) :
        /\ o.ok
        /\ LET fh == file_list[fi]
               st == StoreSignature([signatures |-> signatures,
                                     hash_buckets_list |-> hash_buckets_list],
                                    fh, o.sig, hash_size, bands)
           IN  /\ signatures' = st.signatures
               /\ hash_buckets_list' = st.hash_buckets_list
               /\ decoded' = [p \in (DOMAIN decoded) \cup {fh} |->
                                 IF p = fh THEN o ELSE decoded[p]]
    /\ fi' = fi + 1
    /\ UNCHANGED <<pc, input_dir, threshold, hash_size, bands, file_list,
                   candidate_pairs, near_duplicates, exc, stdout, gvars, groups>>

\* lines 57-63: one file, calculate_signature raises IOError
SignatureFailed ==
    /\ pc = "files"
    /\ fi <= Len(file_list)
    /\ \E o \in calculate_signature(hash_size) :
        /\ ~o.ok
        /\ decoded' = [p \in (DOMAIN decoded) \cup {file_list[fi]} |->
                          IF p = file_list[fi] THEN o ELSE decoded[p]]
    /\ stdout' = Append(stdout, [msg |-> "Not a PIL image encountered", arg |-> ""])
    /\ fi' = AfterIOError(fi, Len(file_list))
    /\ UNCHANGED <<pc, input_dir, threshold, hash_size, bands, file_list, signatures,
                   hash_buckets_list, candidate_pairs, near_duplicates, exc,
                   gvars, groups>>

\* lines 76-102, 170-174: after the last file find_near_duplicates builds the
\* candidate pairs, scores them, sorts and returns; main groups and prints.  The
\* set candidate_pairs is iterated (line 90) in an order the program does not choose.
MainReport ==
    /\ pc = "files"
    /\ fi > Len(file_list)
    /\ candidate_pairs' = BuildCandidatePairs(hash_buckets_list)
    /\ near_duplicates' \in PossibleResults(candidate_pairs', signatures, hash_size,
                                           threshold)
    /\ groups' = group_similar_images(near_duplicates')
    /\ stdout' = Append(stdout,
                        IF near_duplicates' # <<>>
                        THEN [msg |-> "groups", arg |-> groups']
                        ELSE [msg |-> "No near-duplicates found in",
                              arg |-> input_dir.name])
    /\ pc' = "done"
    /\ UNCHANGED <<input_dir, threshold, hash_size, bands, file_list, fi, decoded,
                   signatures, hash_buckets_list, exc, gvars>>

\* lines 175-176
MainExcept ==
    /\ pc = "raised"
    /\ IF MainCatches(exc)
       THEN /\ stdout' = Append(stdout, [msg |-> "Couldn't open input directory",
                                             arg |-> input_dir.name])
            /\ exc' = "none"
            /\ pc' = "done"
       ELSE /\ pc' = "propagated"
            /\ UNCHANGED <<stdout, exc>>
    /\ UNCHANGED <<input_dir, threshold, hash_size, bands, file_list, fi, decoded,
                   signatures, hash_buckets_list, candidate_pairs,
                   near_duplicates, gvars, groups>>

Next ==
    \/ ListDirRaises
    \/ ListDir
    \/ SignatureStored
    \/ SignatureFailed
    \/ MainReport
    \/ MainExcept

Spec == Init /\ [][Next]_vars

(***************************************************************************)
(* SpecGroup: group_similar_images one loop iteration at a time, on any    *)
(* list of at most MaxPairs triples over GroupPaths (the similarity of a   *)
(* triple is never read)                                                   *)
(***************************************************************************)
RECURSIVE SeqsUpTo(_, _)
SeqsUpTo(S, n) ==
    IF n = 0 THEN {<<>>}
    ELSE SeqsUpTo(S, n - 1)
         \cup {Append(q, x) : q \in {r \in SeqsUpTo(S, n - 1) : Len(r) = n - 1}, x \in S}

PairLists == SeqsUpTo({<<a, b, <<1, 1>>>> : a \in GroupPaths, b \in GroupPaths}, MaxPairs)

GroupState ==
    [parent |-> parent, parent_keys |-> parent_keys,
     clusters |-> clusters, cluster_keys |-> cluster_keys]

SetGroupState(st) ==
    /\ parent' = st.parent
    /\ parent_keys' = st.parent_keys
    /\ clusters' = st.clusters
    /\ cluster_keys' = st.cluster_keys

InitGroup ==
    /\ pc = "idle"
    /\ FindIdle
    /\ gpairs \in PairLists
    /\ gpc = "make_sets"
    /\ gi = 1
    /\ parent = EmptyGroupState.parent
    /\ parent_keys = EmptyGroupState.parent_keys
    /\ clusters = EmptyGroupState.clusters
    /\ cluster_keys = EmptyGroupState.cluster_keys
    /\ groups = <<>>

\* lines 137-139, one iteration
MakeSets ==
    /\ gpc = "make_sets"
    /\ gi <= Len(gpairs)
    /\ SetGroupState(MakeSetsOf(GroupState, gpairs[gi]))
    /\ gi' = gi + 1
    /\ UNCHANGED <<fvars, gpc, gpairs, groups>>

\* line 142: the first loop is over
MakeSetsDone ==
    /\ gpc = "make_sets"
    /\ gi > Len(gpairs)
    /\ gpc' = "union"
    /\ gi' = 1
    /\ UNCHANGED <<fvars, gpairs, parent, parent_keys, clusters, cluster_keys, groups>>

\* lines 142-143, one iteration
UnionPair ==
    /\ gpc = "union"
    /\ gi <= Len(gpairs)
    /\ SetGroupState(UnionOf(GroupState, gpairs[gi]))
    /\ gi' = gi + 1
    /\ UNCHANGED <<fvars, gpc, gpairs, groups>>

\* line 146: the second loop is over
UnionDone ==
    /\ gpc = "union"
    /\ gi > Len(gpairs)
    /\ gpc' = "clusters"
    /\ gi' = 1
    /\ UNCHANGED <<fvars, gpairs, parent, parent_keys, clusters, cluster_keys, groups>>

\* lines 147-149, one iteration
ClusterImage ==
    /\ gpc = "clusters"
    /\ gi <= Len(parent_keys)
    /\ SetGroupState(ClusterOf(GroupState, parent_keys[gi]))
    /\ gi' = gi + 1
    /\ UNCHANGED <<fvars, gpc, gpairs, groups>>

\* line 151
GroupReturn ==
    /\ gpc = "clusters"
    /\ gi > Len(parent_keys)
    /\ groups' = ClusterValues(GroupState)
    /\ gpc' = "done"
    /\ UNCHANGED <<fvars, gpairs, gi, parent, parent_keys, clusters, cluster_keys>>

NextGroup ==
    \/ MakeSets
    \/ MakeSetsDone
    \/ UnionPair
    \/ UnionDone
    \/ ClusterImage
    \/ GroupReturn

SpecGroup == InitGroup /\ [][NextGroup]_vars

(***************************************************************************)
(* Properties of find_near_duplicates and main (Spec)                      *)
(***************************************************************************)
\* find_near_duplicates has returned its list
Returned == input_dir.listable /\ pc = "done"

\* the files calculate_signature returned a fingerprint for
OkFiles == {p \in Range(file_list) : p \in DOMAIN decoded /\ decoded[p].ok}
FailedFiles == {p \in Range(file_list) : p \in DOMAIN decoded /\ ~decoded[p].ok}

\* the fingerprint calculate_signature returned for p
Fingerprint(p) == decoded[p].sig

\* similarity of two fingerprints, counted on the bits themselves
FingerprintSimilarity(a, b) ==
    <<Cardinality({k \in 1..(hash_size * hash_size) : Fingerprint(a)[k] = Fingerprint(b)[k]}),
      hash_size * hash_size>>

\* a and b have identical bits on band i: positions [i*r, (i+1)*r), 0-based
SameBand(a, b, i, r) ==
    \A k \in (i * r + 1)..((i + 1) * r) : Fingerprint(a)[k] = Fingerprint(b)[k]

SharedBands(a, b) ==
    {i \in 0..(bands - 1) : SameBand(a, b, i, (hash_size * hash_size) \div bands)}

\* the unordered pair {a, b} is reported
Reported(a, b) ==
    \E k \in DOMAIN near_duplicates :
        {near_duplicates[k][1], near_duplicates[k][2]} = {a, b}

CanonicallyBefore(x, y) ==
    \/ FracGt(x[3], y[3])
    \/ /\ FracEq(x[3], y[3])
       /\ \/ PathLt(x[1], y[1])
          \/ (x[1] = y[1] /\ PathLt(x[2], y[2]))

\* C5 as stated: the returned list is sorted by descending similarity with ties
\* broken by (path_a, path_b), so the sequence does not depend on the order of
\* enumeration of the files or of iteration of the candidate pairs.
C5_CanonicalOrder ==
    Returned =>
        \A i, j \in DOMAIN near_duplicates :
            i < j => CanonicallyBefore(near_duplicates[i], near_duplicates[j])

\* what the set of files and their fingerprints determine, whatever the order of
\* the listing: the pairs a < b that share a band and exceed the threshold
TriplesOfFiles ==
    {<<ab[1], ab[2], FingerprintSimilarity(ab[1], ab[2])>> :
        ab \in {x \in OkFiles \X OkFiles :
                  /\ PathLt(x[1], x[2])
                  /\ SharedBands(x[1], x[2]) # {}
                  /\ FracGt(FingerprintSimilarity(x[1], x[2]), threshold)}}

\* C5 amended: the returned list is sorted by descending similarity and holds,
\* each once, triples that the set of files and fingerprints determines, whatever
\* the order in which the files are enumerated and the candidate pairs iterated;
\* the order among triples of equal similarity is not fixed.
C5_SortedSameTriples ==
    Returned =>
        /\ \A i, j \in DOMAIN near_duplicates :
              i < j => ~FracGt(near_duplicates[j][3], near_duplicates[i][3])
        /\ Range(near_duplicates) = TriplesOfFiles
        /\ Len(near_duplicates) = Cardinality(Range(near_duplicates))

C5_Witness ==
    /\ Returned
    /\ file_list # SortedPaths(file_list)
    /\ \E i, j \in DOMAIN near_duplicates :
          i < j /\ FracGt(near_duplicates[i][3], near_duplicates[j][3])
    /\ \E i, j \in DOMAIN near_duplicates :
          i < j /\ CanonicallyBefore(near_duplicates[j], near_duplicates[i])

\* C6: every returned triple has path_a < path_b, and no unordered pair is
\* returned twice, also when it shares a bucket in several bands.
C6_CanonicalDeduplicated ==
    Returned =>
        /\ \A k \in DOMAIN near_duplicates :
              PathLt(near_duplicates[k][1], near_duplicates[k][2])
        /\ \A i, j \in DOMAIN near_duplicates :
              i # j => {near_duplicates[i][1], near_duplicates[i][2]}
                        # {near_duplicates[j][1], near_duplicates[j][2]}

C6_Witness ==
    /\ Returned
    /\ file_list # SortedPaths(file_list)
    /\ \E k \in DOMAIN near_duplicates :
          /\ Cardinality(SharedBands(near_duplicates[k][1], near_duplicates[k][2])) > 1
          /\ PathLt(file_list[2], file_list[1])
          /\ {near_duplicates[k][1], near_duplicates[k][2]} = {file_list[1], file_list[2]}

\* C7: two distinct files with identical fingerprints are returned as a pair of
\* similarity exactly 1, for every bands >= 1 and every threshold < 1.
C7_IdenticalReported ==
    Returned =>
        \A a, b \in OkFiles :
            (a # b /\ Fingerprint(a) = Fingerprint(b) /\ FracGt(<<1, 1>>, threshold)) =>
                \E k \in DOMAIN near_duplicates :
                    /\ {near_duplicates[k][1], near_duplicates[k][2]} = {a, b}
                    /\ FracEq(near_duplicates[k][3], <<1, 1>>)

C7_Witness ==
    /\ Returned
    /\ bands > hash_size * hash_size
    /\ \E a, b \in OkFiles : a # b /\ Fingerprint(a) = Fingerprint(b) /\ Reported(a, b)
    /\ \E a, b \in OkFiles : Fingerprint(a) # Fingerprint(b)

\* file_list without the files whose signature computation failed
WithoutFailed ==
    LET Ok(p) == p \in DOMAIN decoded /\ decoded[p].ok
    IN  SelectSeq(file_list, Ok)

\* C8: every file is processed; a file whose signature computation fails has no
\* fingerprint and is in no bucket; fingerprints, buckets and the returned list are
\* those of the same listing without the failing files.
C8_DecodeFailureIsolated ==
    Returned =>
        /\ Range(file_list) \subseteq DOMAIN decoded
        /\ \A p \in FailedFiles :
              /\ p \notin DOMAIN signatures
              /\ \A i \in DOMAIN hash_buckets_list :
                    \A key \in DOMAIN hash_buckets_list[i] :
                        p \notin Range(hash_buckets_list[i][key])
        /\ FailedFiles # {} =>
           LET ref == IndexFiles(EmptyIndex(bands), WithoutFailed, 1, decoded,
                                 hash_size, bands)
           IN  /\ signatures = ref.signatures
               /\ hash_buckets_list = ref.hash_buckets_list
               /\ near_duplicates \in
                     PossibleResults(BuildCandidatePairs(ref.hash_buckets_list),
                                     ref.signatures, hash_size, threshold)

C8_Witness ==
    /\ Returned
    /\ Len(file_list) = 3
    /\ file_list[2] \in FailedFiles
    /\ Reported(file_list[1], file_list[3])

\* C9: when the directory cannot be listed, find_near_duplicates raises before any
\* file is processed and returns nothing; main prints the failure with the path and
\* nothing else, and the error does not leave main.  When it can be listed, no
\* error is raised at all.
C9_DirectoryFailure ==
    /\ (~input_dir.listable /\ pc # "main") =>
          /\ file_list = <<>> /\ decoded = <<>> /\ signatures = <<>>
          /\ near_duplicates = <<>> /\ groups = <<>>
          /\ pc \in {"raised", "done"}
          /\ pc = "raised" => (exc = "OSError" /\ stdout = <<>>)
          /\ pc = "done" =>
                /\ exc = "none"
                /\ stdout = <<[msg |-> "Couldn't open input directory",
                               arg |-> input_dir.name]>>
    /\ input_dir.listable => (exc = "none" /\ pc \notin {"raised", "propagated"})

C9_Witness ==
    /\ ~input_dir.listable
    /\ pc = "done"
    /\ Len(stdout) = 1

GroupDone == gpc = "done"

\* the paths that appear in some pair of nds
PathsIn(nds) == {nds[k][1] : k \in DOMAIN nds} \cup {nds[k][2] : k \in DOMAIN nds}

\* the clusters of a returned list, as a set of sets
AsPartition(gs) == {Range(gs[k]) : k \in DOMAIN gs}

\* C2: the returned clusters partition the paths of the input pairs: each path is
\* in exactly one cluster, no cluster lists a path twice, clusters are pairwise
\* disjoint, and their union is the set of paths of the pairs.
C2_ValidPartition ==
    GroupDone =>
        /\ \A p \in PathsIn(gpairs) :
              Cardinality({k \in DOMAIN groups : p \in Range(groups[k])}) = 1
        /\ \A k \in DOMAIN groups :
              \A i, j \in DOMAIN groups[k] : i # j => groups[k][i] # groups[k][j]
        /\ \A k, l \in DOMAIN groups :
              k # l => Range(groups[k]) \cap Range(groups[l]) = {}
        /\ UNION AsPartition(groups) = PathsIn(gpairs)

C2_Witness ==
    /\ GroupDone
    /\ Len(groups) >= 2
    /\ \A k \in DOMAIN groups : Len(groups[k]) >= 2
    /\ \E i, j \in DOMAIN gpairs :
          i # j /\ {gpairs[i][1], gpairs[i][2]} \cap {gpairs[j][1], gpairs[j][2]} # {}

\* the paths linked to the paths of S by a chain of pairs of nds
RECURSIVE LinkedTo(_, _)
LinkedTo(S, nds) ==
    LET more == S \cup {nds[k][1] : k \in {i \in DOMAIN nds : nds[i][2] \in S}}
                  \cup {nds[k][2] : k \in {i \in DOMAIN nds : nds[i][1] \in S}}
    IN  IF more = S THEN S ELSE LinkedTo(more, nds)

\* C3: the clusters are the connected components of the graph of the input
\* pairs: two paths share a cluster iff a chain of pairs links them, and a path
\* of no pair is in no cluster.
C3_ConnectedComponents ==
    GroupDone =>
        /\ AsPartition(groups) = {LinkedTo({p}, gpairs) : p \in PathsIn(gpairs)}
        /\ \A p \in GroupPaths \ PathsIn(gpairs) :
              \A k \in DOMAIN groups : p \notin Range(groups[k])

\* two paths clustered together that no pair joins directly, beside a path of no pair
C3_Witness ==
    /\ GroupDone
    /\ PathsIn(gpairs) # GroupPaths
    /\ \E k \in DOMAIN groups :
          \E p, q \in Range(groups[k]) :
              /\ p # q
              /\ \A i \in DOMAIN gpairs : {gpairs[i][1], gpairs[i][2]} # {p, q}

\* the lists that hold the triples of nds in another order
Shuffles(nds) ==
    {[k \in DOMAIN nds |-> nds[o[k]]] : o \in Orders(DOMAIN nds)}

\* C4: every reordering of the pair list yields the same partition (as a set of
\* sets); the roots and the order of members may differ.
C4_OrderIndependent ==
    GroupDone =>
        \A q \in Shuffles(gpairs) :
            AsPartition(group_similar_images(q)) = AsPartition(groups)

\* a reordering that returns another list for the same partition
C4_Witness ==
    /\ GroupDone
    /\ Len(groups) >= 1
    /\ \E q \in Shuffles(gpairs) :
          /\ group_similar_images(q) # groups
          /\ \E k \in DOMAIN groups : groups[k][1] \notin {g[1] : g \in Range(group_similar_images(q))}

====
